---- MODULE Spec2Model ----
(***************************************************************************)
(* Contractor Ad API: an Express service with an ads table and a leads     *)
(* table behind a shared-secret header.  The repository holds three        *)
(* variants of the same server:                                            *)
(*   "bs3"    src/index.js:1-150     better-sqlite3, one global handle,    *)
(*                                   validates metadata, no leads route    *)
(*   "sqljs"  src/index.js:152-352   sql.js in memory, saveDb() to a file  *)
(*   "bs3req" src/unnamed/part_000   better-sqlite3, a handle per request  *)
(* The variant and the environment are chosen in Init and never change.    *)
(*                                                                         *)
(* JavaScript values are written as strings: numbers by their decimal      *)
(* text, undefined / null / a nested object by the three markers below.    *)
(***************************************************************************)
EXTENDS Integers, Sequences, FiniteSets, TLC

\* ---------------------------------------------------------------- bounds
MaxRows == 2
MaxTime == 1

\* ------------------------------------------------------- JavaScript values
UNDEFINED == "<undefined>"
NULL == "<null>"
OBJECT == "<object>"

\* values JavaScript treats as false in `a || b` and `!a`
Falsy(v) == v \in {UNDEFINED, NULL, "", "0"}

\* a || b
Or(a, b) == IF Falsy(a) THEN b ELSE a

Variants == {"bs3", "sqljs", "bs3req"}

VARIABLES
    variant,   \* which server file is running
    envKey,    \* process.env.INTERNAL_WEBHOOK_KEY
    ads,       \* rows of table ads, in rowid order (the handle's database)
    leads,     \* rows of table leads, in rowid order
    file,      \* content of the file at DB_PATH
    now,       \* CURRENT_TIMESTAMP, in seconds
    pc,        \* "idle"; "handling" once a request is received; "saveDb"
               \* while variant "sqljs" is inside fs.writeFileSync
    req,       \* the request being handled (NoReq when none is)
    resp       \* the response last sent (NoResp once a new request is in)

vars == <<variant, envKey, ads, leads, file, now, pc, req, resp>>

\* ------------------------------------------------------------ environment
Secret == "s3cret"
FallbackKey == "supersecret-key-2026"
EnvKeys == {UNDEFINED, Secret}

INTERNAL_KEY == IF variant = "bs3" THEN Or(envKey, FallbackKey) ELSE envKey

\* ------------------------------------------------------------ metadata
MetaFields == {"service_type", "location", "max_daily_spend", "image_url", "customer_phone"}
EmptyMeta == [f \in MetaFields |-> UNDEFINED]
FullMeta(st) ==
    [service_type |-> st, location |-> "Austin", max_daily_spend |-> "75",
     image_url |-> "http://img", customer_phone |-> "555"]
MetaObjs ==
    { EmptyMeta,
      [EmptyMeta EXCEPT !.service_type = "roofing"],
      FullMeta("roofing"), FullMeta("") }

\* A metadata value of a request body, by kind:
\*   "undefined"  the key is missing        "null"  JSON null
\*   "object"     the object val            "json"  the string JSON.stringify(val)
\*   "text"       a string that is no JSON text
\* and, produced by JSON.stringify only:
\*   "json2"      the string literal quoting the JSON text of val
\*   "text2"      the string literal quoting a non-JSON string
\*   "nulltext"   the string "null"
MetaValue(kind, val) == [kind |-> kind, val |-> val]
NoMeta == MetaValue("undefined", EmptyMeta)
MetaInputs ==
    { NoMeta, MetaValue("null", EmptyMeta), MetaValue("text", EmptyMeta) }
    \cup { MetaValue("object", m) : m \in MetaObjs }
    \cup { MetaValue("json", FullMeta("roofing")) }

IsString(mv) == mv.kind \in {"json", "text", "json2", "text2", "nulltext"}

\* JSON.stringify: an object becomes its JSON text, a string becomes a quoted
\* string literal, null becomes "null", undefined stays undefined
JSONstringify(mv) ==
    CASE mv.kind = "object" -> MetaValue("json", mv.val)
      [] mv.kind = "json" -> MetaValue("json2", mv.val)
      [] mv.kind = "text" -> MetaValue("text2", mv.val)
      [] mv.kind = "null" -> MetaValue("nulltext", mv.val)
      [] OTHER -> NoMeta

\* JSON.parse throws SyntaxError on a string that is no JSON text
JSONparseThrows(mv) == mv.kind \in {"text"}
JSONparse(mv) ==
    CASE mv.kind = "json" -> MetaValue("object", mv.val)
      [] mv.kind = "json2" -> MetaValue("json", mv.val)
      [] mv.kind = "text2" -> MetaValue("text", mv.val)
      [] mv.kind = "nulltext" -> MetaValue("null", mv.val)
      [] OTHER -> NoMeta

\* mv.<field>: a property read; a string has none of these properties
Prop(mv, f) == IF mv.kind = "object" THEN mv.val[f] ELSE UNDEFINED

\* reading a property of undefined or null throws TypeError
PropThrows(mv) == mv.kind \in {"undefined", "null"}

\* JSON.stringify of a scalar body value (ad_content)
JSONstringifyScalar(v) ==
    CASE v = UNDEFINED -> UNDEFINED
      [] v = NULL -> "null"
      [] v = OBJECT -> "{\"headline\":\"h\"}"
      [] OTHER -> v

\* typeof ad_content === 'string' ? ad_content : JSON.stringify(ad_content)
AdContentText(v) == IF v \in {UNDEFINED, NULL, OBJECT} THEN JSONstringifyScalar(v) ELSE v

\* ------------------------------------------------------------------ rows
\* A row of table ads.  Variant "bs3" has no column fb_ad_ids: there the
\* field stays NULL and no statement names it.
AdRow(id, c, t) ==
    [id |-> id,
     service_type |-> c.service_type, location |-> c.location, status |-> c.status,
     campaign_id |-> NULL, ad_set_id |-> NULL, fb_ad_ids |-> NULL,
     budget |-> c.budget, max_daily_spend |-> c.max_daily_spend,
     image_url |-> c.image_url, customer_phone |-> c.customer_phone,
     ad_content |-> c.ad_content, metadata |-> c.metadata,
     error_details |-> NULL, notes |-> NULL,
     created_at |-> t, updated_at |-> t]

NoCols ==
    [service_type |-> NULL, location |-> NULL, status |-> NULL, budget |-> NULL,
     max_daily_spend |-> NULL, image_url |-> NULL, customer_phone |-> NULL,
     ad_content |-> NULL, metadata |-> NoMeta]

\* "no row": what a response carries when it carries no ad
NoRow == AdRow(0, NoCols, 0)

LeadFields ==
    {"lead_id", "campaign_id", "ad_id", "name", "email", "phone", "zip_code",
     "service_interest", "message", "created_time"}

EmptyDb == [ads |-> <<>>, leads |-> <<>>]

\* -------------------------------------------------------------- requests
\* PATCH bodies: a function from the keys the body holds to their values
EmptyPatch == <<>>
\* a body with allow-listed and other keys, sent to the first id and to an id
\* no row has
OnePatch ==
    [status |-> "approved", campaign_id |-> "c1", fb_ad_ids |-> "fb1", notes |-> NULL,
     budget |-> "999", foo |-> "bar"]
\* a body with fb_ad_ids alone, sent to an id no row has
FbOnlyPatch == [fb_ad_ids |-> "fb1"]
\* bodies that change no row, sent to id 1
PatchBodies ==
    { EmptyPatch,
      [budget |-> "999", service_type |-> "plumbing", foo |-> "bar"],
      [error_details |-> OBJECT] }

CreateBodies ==
    { [ad_content |-> "Great roofs", budget |-> "100", status |-> UNDEFINED,
       metadata |-> mv] : mv \in MetaInputs }
\* a body with structured ad_content, a status and no budget
ObjectCreate ==
    [ad_content |-> OBJECT, budget |-> UNDEFINED, status |-> "approved",
     metadata |-> MetaValue("object", FullMeta("roofing"))]

EmptyLead == [f \in LeadFields |-> UNDEFINED]
FullLead(lid, name) ==
    [lead_id |-> lid, campaign_id |-> "c1", ad_id |-> "1", name |-> name,
     email |-> "a@b.c", phone |-> "555", zip_code |-> "78701",
     service_interest |-> "roofing", message |-> "hi", created_time |-> "t0"]
\* two leads with one lead_id, and a body holding a name only
LeadBodies ==
    { FullLead("L1", "Ann"), FullLead("L1", "Bob"), [EmptyLead EXCEPT !.name = "Eve"] }

\* the two header spellings, <<x-internal-key, internal_webhook_key>>: every
\* body is sent with Headers, one body of each route also with MoreHeaders
Headers == { <<Secret, UNDEFINED>> }
MoreHeaders == { <<UNDEFINED, UNDEFINED>>, <<FallbackKey, UNDEFINED>>, <<UNDEFINED, Secret>> }

\* a request: its route, the two headers, req.params and req.body
Request(rt, h, id, campaign, body) ==
    [route |-> rt, xkey |-> h[1], alias |-> h[2], id |-> id, campaign |-> campaign,
     body |-> body]
NoReq == [route |-> "none"]
NoBody == <<>>

Ids == 1 .. (MaxRows + 1)
Campaigns == {"c1", "c2"}

OneCreate ==
    [ad_content |-> "Great roofs", budget |-> "100", status |-> UNDEFINED,
     metadata |-> MetaValue("object", FullMeta("roofing"))]

CreateRequests ==
    { Request("create", h, 0, UNDEFINED, b) : h \in Headers, b \in CreateBodies }
    \cup { Request("create", h, 0, UNDEFINED, OneCreate) : h \in MoreHeaders }
    \cup { Request("create", <<FallbackKey, UNDEFINED>>, 0, UNDEFINED, ObjectCreate) }
GetRequests ==
    { Request("get", h, i, UNDEFINED, NoBody) : h \in Headers, i \in Ids }
    \cup { Request("get", h, 1, UNDEFINED, NoBody) : h \in MoreHeaders }
CampaignRequests ==
    { Request("by-campaign", h, 0, c, NoBody) : h \in Headers, c \in Campaigns }
    \cup { Request("by-campaign", h, 0, "c1", NoBody) : h \in MoreHeaders }
PatchRequests ==
    { Request("patch", h, i, UNDEFINED, OnePatch) : h \in Headers, i \in {1, MaxRows + 1} }
    \cup { Request("patch", h, 1, UNDEFINED, b) : h \in Headers, b \in PatchBodies }
    \cup { Request("patch", h, MaxRows + 1, UNDEFINED, FbOnlyPatch) : h \in Headers }
    \cup { Request("patch", h, 1, UNDEFINED, OnePatch) : h \in MoreHeaders }
LeadRequests ==
    { Request("lead", h, 0, UNDEFINED, b) : h \in Headers, b \in LeadBodies }
    \cup { Request("lead", h, 0, UNDEFINED, FullLead("L1", "Ann")) : h \in MoreHeaders }

\* ------------------------------------------------------------- responses
NoId == 0
Response(status, id, row) == [status |-> status, id |-> id, row |-> row]
NoResp == Response(0, NoId, NoRow)
\* what the state keeps of a response: the route it answers, the status and
\* the id (a fetched ad is read off the table)
Sent(rt, rs) == [route |-> rt, status |-> rs.status, id |-> rs.id]
NoneSent == Sent("none", NoResp)

\* what a handler does: the response, the tables it leaves, and whether a
\* statement ran to completion through run()
Outcome(status, id, row, a, l, ran) ==
    [resp |-> Response(status, id, row), ads |-> a, leads |-> l, ran |-> ran]
Reject(status) == Outcome(status, NoId, NoRow, ads, leads, FALSE)

\* ------------------------------------------------------------------ auth
\* TRUE when the middleware calls next(), FALSE when it answers 401
auth(r) ==
    IF variant = "bs3"
    THEN Or(r.xkey, r.alias) = INTERNAL_KEY
    ELSE r.xkey = INTERNAL_KEY

\* ------------------------------------------------------- statement binding
\* Neither driver binds a nested object.  sql.js throws on undefined
\* ("tried to bind a value of an unknown type"); better-sqlite3 binds
\* undefined as NULL.
Unbindable(v) == v = OBJECT \/ (v = UNDEFINED /\ variant = "sqljs")
Bind(v) == IF v = UNDEFINED THEN NULL ELSE v

ScalarCols ==
    {"service_type", "location", "status", "budget", "max_daily_spend", "image_url",
     "customer_phone", "ad_content"}

\* columns declared NOT NULL in CREATE TABLE ads
NotNullCols == IF variant = "bs3" THEN {"service_type"} ELSE {"service_type", "location"}

\* INSERT INTO ads (...) VALUES (?, ?, ?, ?, ?, ?, ?, ?, ?) throws
InsertAdThrows(c) ==
    \/ \E k \in ScalarCols : Unbindable(c[k])
    \/ (c.metadata.kind = "undefined" /\ variant = "sqljs")
    \/ \E k \in NotNullCols : Bind(c[k]) = NULL

\* the row the INSERT stores: AUTOINCREMENT id, unnamed columns NULL, both
\* timestamps DEFAULT CURRENT_TIMESTAMP
InsertedAd(c) ==
    AdRow(Len(ads) + 1,
          [service_type |-> Bind(c.service_type), location |-> Bind(c.location),
           status |-> Bind(c.status), budget |-> Bind(c.budget),
           max_daily_spend |-> Bind(c.max_daily_spend), image_url |-> Bind(c.image_url),
           customer_phone |-> Bind(c.customer_phone), ad_content |-> Bind(c.ad_content),
           metadata |-> c.metadata],
          now)

\* SELECT * FROM ads WHERE id = ?  (first row, NoRow when there is none)
QueryAdById(a, id) ==
    IF \E i \in DOMAIN a : a[i].id = id
    THEN a[CHOOSE i \in DOMAIN a : a[i].id = id]
    ELSE NoRow

\* SELECT * FROM ads WHERE campaign_id = ?  (first row in rowid order)
QueryAdByCampaign(a, c) ==
    IF \E i \in DOMAIN a : a[i].campaign_id = c
    THEN a[CHOOSE i \in DOMAIN a :
             a[i].campaign_id = c /\ \A j \in DOMAIN a : a[j].campaign_id = c => i <= j]
    ELSE NoRow

\* -------------------------------------------------- POST /api/webhook/ads/create
\* the values handed to the INSERT
CreateCols(b) ==
    IF variant = "bs3"
    THEN LET meta == IF IsString(b.metadata) THEN JSONparse(b.metadata) ELSE b.metadata
         IN [service_type |-> Prop(meta, "service_type"),
             location |-> Or(Prop(meta, "location"), ""),
             status |-> Or(b.status, "pending_approval"),
             budget |-> Or(b.budget, "0"),
             max_daily_spend |-> Or(Prop(meta, "max_daily_spend"), "50"),
             image_url |-> Or(Prop(meta, "image_url"), ""),
             customer_phone |-> Or(Prop(meta, "customer_phone"), ""),
             ad_content |-> AdContentText(b.ad_content),
             metadata |-> JSONstringify(meta)]
    ELSE [service_type |-> Prop(b.metadata, "service_type"),
          location |-> Prop(b.metadata, "location"),
          status |-> Or(b.status, "pending_approval"),
          budget |-> b.budget,
          max_daily_spend |-> Prop(b.metadata, "max_daily_spend"),
          image_url |-> Prop(b.metadata, "image_url"),
          customer_phone |-> Prop(b.metadata, "customer_phone"),
          ad_content |-> AdContentText(b.ad_content),
          metadata |-> JSONstringify(b.metadata)]

\* if (!meta || !meta.service_type) return 400   (variant "bs3" only)
MissingServiceType(b) ==
    LET meta == IF IsString(b.metadata) THEN JSONparse(b.metadata) ELSE b.metadata
    IN meta.kind \in {"undefined", "null"} \/ Falsy(Prop(meta, "service_type"))

\* run(sql, params).lastInsertRowid of variant "sqljs": the row of
\* SELECT last_insert_rowid() as id, read under the key 'last_insert_rowid()'
RunLastInsertRowid(rowid) ==
    LET result == [id |-> rowid]
    IN IF "last_insert_rowid()" \in DOMAIN result THEN result["last_insert_rowid()"] ELSE NoId

CreateAdOutcome(r) ==
    LET b == r.body
        c == CreateCols(b)
        row == InsertedAd(c)
    IN IF ~auth(r) THEN Reject(401)
       ELSE IF variant = "bs3" /\ IsString(b.metadata) /\ JSONparseThrows(b.metadata)
            THEN Reject(500)
       ELSE IF variant = "bs3" /\ MissingServiceType(b) THEN Reject(400)
       ELSE IF variant # "bs3" /\ PropThrows(b.metadata) THEN Reject(500)
       ELSE IF InsertAdThrows(c) THEN Reject(500)
       ELSE Outcome(200,
                    IF variant = "sqljs" THEN RunLastInsertRowid(row.id) ELSE row.id,
                    NoRow, Append(ads, row), leads, TRUE)

\* ------------------------------------------------------------ GET /api/ads/:id
GetAdOutcome(r) ==
    LET ad == QueryAdById(ads, r.id)
    IN IF ~auth(r) THEN Reject(401)
       ELSE IF ad = NoRow THEN Reject(404)
       ELSE Outcome(200, NoId, ad, ads, leads, FALSE)

\* ------------------------------------------- GET /api/ads/by-campaign/:campaign_id
GetByCampaignOutcome(r) ==
    LET ad == QueryAdByCampaign(ads, r.campaign)
    IN IF ~auth(r) THEN Reject(401)
       ELSE IF ad = NoRow THEN Reject(404)
       ELSE Outcome(200, NoId, ad, ads, leads, FALSE)

\* ---------------------------------------------------------- PATCH /api/ads/:id
\* an allow-list that lets budget through as well
allowedWithBudget ==
    {"status", "campaign_id", "ad_set_id", "fb_ad_ids", "notes", "error_details", "budget"}

allowed ==
    IF variant = "bs3"
    THEN {"status", "campaign_id", "ad_set_id", "error_details", "notes"}
    ELSE {"status", "campaign_id", "ad_set_id", "fb_ad_ids", "notes", "error_details"}

\* Object.keys(fields)
ObjectKeys(fields) == DOMAIN fields

\* Object.keys(fields).filter(k => allowed.includes(k))
toUpdate(fields) == {k \in ObjectKeys(fields) : k \in allowed}

\* UPDATE ads SET <k = ?, ...>, updated_at = CURRENT_TIMESTAMP  applied to one row
UpdatedRow(row, fields, ks) ==
    [row EXCEPT
       !.status = IF "status" \in ks THEN fields.status ELSE @,
       !.campaign_id = IF "campaign_id" \in ks THEN fields.campaign_id ELSE @,
       !.ad_set_id = IF "ad_set_id" \in ks THEN fields.ad_set_id ELSE @,
       !.fb_ad_ids = IF "fb_ad_ids" \in ks THEN fields.fb_ad_ids ELSE @,
       !.notes = IF "notes" \in ks THEN fields.notes ELSE @,
       !.error_details = IF "error_details" \in ks THEN fields.error_details ELSE @,
       !.updated_at = now]

\* the UPDATE without its WHERE clause
UpdateAdsEveryRow(a, id, fields, ks) ==
    [i \in DOMAIN a |-> UpdatedRow(a[i], fields, ks)]

\* ... WHERE id = ?
UpdateAds(a, id, fields, ks) ==
    [i \in DOMAIN a |-> IF a[i].id = id THEN UpdatedRow(a[i], fields, ks) ELSE a[i]]

PatchAdOutcome(r) ==
    LET fields == r.body
        ks == toUpdate(fields)
    IN IF ~auth(r) THEN Reject(401)
       ELSE IF ks = {} THEN Reject(400)
       ELSE IF \E k \in ks : Unbindable(fields[k]) THEN Reject(500)
       ELSE Outcome(200, NoId, NoRow, UpdateAds(ads, r.id, fields, ks), leads, TRUE)

\* ------------------------------------------------------------- POST /api/leads
LeadRow(id, b, t) ==
    [id |-> id, lead_id |-> Bind(b.lead_id), campaign_id |-> Bind(b.campaign_id),
     ad_id |-> Bind(b.ad_id), name |-> Bind(b.name), email |-> Bind(b.email),
     phone |-> Bind(b.phone), zip_code |-> Bind(b.zip_code),
     service_interest |-> Bind(b.service_interest), message |-> Bind(b.message),
     created_time |-> Bind(b.created_time), logged_at |-> t]

\* INSERT OR IGNORE INTO leads: the UNIQUE constraint on lead_id skips the
\* insert when a row holds the same non-NULL lead_id
InsertOrIgnoreLead(l, b) ==
    IF Bind(b.lead_id) # NULL /\ \E i \in DOMAIN l : l[i].lead_id = Bind(b.lead_id)
    THEN l
    ELSE Append(l, LeadRow(Len(l) + 1, b, now))

PostLeadOutcome(r) ==
    IF ~auth(r) THEN Reject(401)
    ELSE IF \E f \in LeadFields : Unbindable(r.body[f]) THEN Reject(500)
    ELSE Outcome(200, NoId, NoRow, ads, InsertOrIgnoreLead(leads, r.body), TRUE)

\* the routes registered behind auth; variant "bs3" has no /api/leads
ProtectedRequests ==
    CreateRequests \cup GetRequests \cup CampaignRequests \cup PatchRequests
    \cup (IF variant = "bs3" THEN {} ELSE LeadRequests)

HandlerOutcome(r) ==
    CASE r.route = "create" -> CreateAdOutcome(r)
      [] r.route = "get" -> GetAdOutcome(r)
      [] r.route = "by-campaign" -> GetByCampaignOutcome(r)
      [] r.route = "patch" -> PatchAdOutcome(r)
      [] OTHER -> PostLeadOutcome(r)

\* ---------------------------------------------------------------- actions
Init ==
    /\ variant \in Variants
    /\ envKey \in EnvKeys
    /\ ads = <<>>
    /\ leads = <<>>
    /\ file = EmptyDb
    /\ now = 0
    /\ pc = "idle"
    /\ req = NoReq
    /\ resp = NoneSent

\* A request arrives (only requests that keep the tables within MaxRows).
Receive ==
    /\ pc = "idle"
    /\ \E r \in ProtectedRequests :
          /\ LET out == HandlerOutcome(r)
             IN Len(out.ads) + Len(out.leads) <= MaxRows
          /\ req' = r
    /\ pc' = "handling"
    /\ resp' = NoneSent
    /\ UNCHANGED <<variant, envKey, ads, leads, file, now>>

\* A handler runs to its response.  In variant "sqljs" a statement that ran
\* is followed by saveDb(): fs.writeFileSync opens DB_PATH with flag 'w',
\* which truncates it, and the handler is then inside the write (pc "saveDb").
\* The better-sqlite3 variants write the database file itself.
Handle(out) ==
    /\ pc = "handling"
    /\ ads' = out.ads
    /\ leads' = out.leads
    /\ IF variant = "sqljs"
       THEN IF out.ran
            THEN file' = EmptyDb /\ pc' = "saveDb" /\ resp' = resp /\ req' = req
            ELSE file' = file /\ pc' = "idle" /\ resp' = Sent(req.route, out.resp) /\ req' = NoReq
       ELSE /\ file' = [ads |-> out.ads, leads |-> out.leads]
            /\ pc' = "idle"
            /\ resp' = Sent(req.route, out.resp)
            /\ req' = NoReq
    /\ UNCHANGED <<variant, envKey, now>>

CreateAd == req.route = "create" /\ Handle(CreateAdOutcome(req))

GetAd == req.route = "get" /\ Handle(GetAdOutcome(req))

GetAdByCampaign == req.route = "by-campaign" /\ Handle(GetByCampaignOutcome(req))

PatchAd == req.route = "patch" /\ Handle(PatchAdOutcome(req))

PostLead == req.route = "lead" /\ Handle(PostLeadOutcome(req))

\* saveDb(), second half: the exported database reaches the file, then run()
\* reads last_insert_rowid() and the handler sends its response
SaveDbWrite ==
    /\ pc = "saveDb"
    /\ file' = [ads |-> ads, leads |-> leads]
    /\ pc' = "idle"
    /\ resp' = Sent(req.route,
                    Response(200,
                             IF req.route = "create"
                             THEN RunLastInsertRowid(Len(ads)) ELSE NoId,
                             NoRow))
    /\ req' = NoReq
    /\ UNCHANGED <<variant, envKey, ads, leads, now>>

\* CURRENT_TIMESTAMP has a resolution of one second
Tick ==
    /\ pc = "idle"
    /\ now < MaxTime
    /\ now' = now + 1
    /\ UNCHANGED <<variant, envKey, ads, leads, file, pc, req, resp>>

\* The process dies and is started again: the request in flight gets no
\* response, and the handle is opened on what the file holds (initDb reads
\* DB_PATH; a zero-length file is an empty database, the tables are created
\* again and written back).
Crash ==
    /\ ads' = file.ads
    /\ leads' = file.leads
    /\ pc' = "idle"
    /\ req' = NoReq
    /\ resp' = NoneSent
    /\ UNCHANGED <<variant, envKey, file, now>>

Next ==
    \/ Receive
    \/ CreateAd
    \/ GetAd
    \/ GetAdByCampaign
    \/ PatchAd
    \/ PostLead
    \/ SaveDbWrite
    \/ Tick
    \/ Crash

Spec == Init /\ [][Next]_vars

\* ------------------------------------------------------ what the claims use
\* the request carries the configured secret in x-internal-key
CorrectKey(r) == r.xkey # UNDEFINED /\ r.xkey = envKey

\* this step is the handler of req running: it rejects, or its statement runs
Runs == pc = "handling" /\ (resp'.status # 0 \/ pc' = "saveDb")

\* this step sends the response to req
Answers == pc \in {"handling", "saveDb"} /\ resp'.status # 0

\* the allow-list as the specification gives it
SpecAllowList ==
    {"status", "campaign_id", "ad_set_id", "notes", "error_details"}
    \cup (IF variant = "bs3" THEN {} ELSE {"fb_ad_ids"})

\* the allow-listed keys a PATCH body holds, and whether their values are
\* JSON scalars (what a column can hold)
ListedKeys(r) == ObjectKeys(r.body) \cap SpecAllowList
ScalarValues(r) == \A k \in ListedKeys(r) : r.body[k] # OBJECT

AdColumns ==
    {"id", "service_type", "location", "status", "campaign_id", "ad_set_id", "fb_ad_ids",
     "budget", "max_daily_spend", "image_url", "customer_phone", "ad_content", "metadata",
     "error_details", "notes", "created_at", "updated_at"}

HasAd(id) == \E i \in DOMAIN ads : ads[i].id = id

\* C1: on every protected route and under every configuration of the secret,
\* the unset one included, a request whose x-internal-key header is absent or
\* differs from the configured secret is answered 401 and leaves both tables
\* as they were.  (The secret is taken as the process holds it, INTERNAL_KEY,
\* and requests carrying the legacy internal_webhook_key header are left out.)
C1_UnauthorizedRejected ==
    [][ (Runs /\ req.alias = UNDEFINED
              /\ (req.xkey = UNDEFINED \/ req.xkey # INTERNAL_KEY)) =>
            (resp'.status = 401 /\ ads' = ads /\ leads' = leads) ]_vars

\* C2: an authorized create whose metadata is an object without service_type
\* is answered 400, not 500, and the ads table keeps its rows.
C2_MissingServiceTypeIs400 ==
    [][ (Runs /\ req.route = "create" /\ CorrectKey(req)
              /\ req.body.metadata.kind = "object"
              /\ req.body.metadata.val.service_type = UNDEFINED) =>
            (resp'.status = 400 /\ ads' = ads) ]_vars

\* C3: an authorized successful create with metadata {service_type: X} adds
\* exactly one row, answers {id} with id a positive integer that is the new
\* row's id and no id of an earlier row, and GET /api/ads/:id with that id
\* then returns the row, with service_type X and, when no status was given,
\* status 'pending_approval'.
C3_CreateReturnsNewId ==
    [][ (Answers /\ req.route = "create" /\ CorrectKey(req) /\ resp'.status = 200) =>
            LET got == QueryAdById(ads', resp'.id)
                meta == IF IsString(req.body.metadata)
                        THEN JSONparse(req.body.metadata) ELSE req.body.metadata
            IN /\ Len(ads') >= 1
               /\ (pc = "handling" => ads' = Append(ads, ads'[Len(ads')]))
               /\ resp'.id > 0
               /\ resp'.id = ads'[Len(ads')].id
               /\ \A i \in 1 .. (Len(ads') - 1) : ads'[i].id # resp'.id
               /\ got # NoRow
               /\ got.service_type = Prop(meta, "service_type")
               /\ (req.body.status = UNDEFINED => got.status = "pending_approval") ]_vars

\* C4: for every metadata object M, an authorized create sent with the JSON
\* text of M is answered with the same status and stores the same row as the
\* same request sent with M itself, from the same store.
C4_StringMetadataEquivalent ==
    (pc = "handling" /\ req.route = "create" /\ CorrectKey(req)
                     /\ req.body.metadata.kind = "object") =>
        LET asText == [req EXCEPT !.body.metadata = JSONstringify(req.body.metadata)]
            o1 == CreateAdOutcome(req)
            o2 == CreateAdOutcome(asText)
        IN o1.resp.status = o2.resp.status /\ o1.ads = o2.ads

\* C5: an authorized PATCH whose body holds no key of the allow-list is
\* answered 400 and every column of every ads row, updated_at included, is
\* unchanged.
C5_NoValidFieldsIs400 ==
    [][ (Runs /\ req.route = "patch" /\ CorrectKey(req) /\ ListedKeys(req) = {}) =>
            (resp'.status = 400 /\ ads' = ads /\ leads' = leads) ]_vars

\* a PATCH was answered 400 while the table held a row that an earlier PATCH
\* had changed
C5_Witness ==
    /\ pc = "idle"
    /\ resp.route = "patch"
    /\ resp.status = 400
    /\ \E i \in DOMAIN ads : ads[i].status = "approved"

\* what C6 says of the rows, given how updated_at is to move
PatchApplied(moved(_, _)) ==
    /\ DOMAIN ads' = DOMAIN ads
    /\ leads' = leads
    /\ \A i \in DOMAIN ads :
          IF ads[i].id = req.id
          THEN /\ \A k \in ListedKeys(req) : ads'[i][k] = req.body[k]
               /\ moved(ads[i].updated_at, ads'[i].updated_at)
               /\ \A c \in AdColumns \ (ListedKeys(req) \cup {"updated_at"}) :
                     ads'[i][c] = ads[i][c]
          ELSE ads'[i] = ads[i]

StrictlyForward(old, new) == new > old
StampedNow(old, new) == new = now /\ new >= old

PatchCase ==
    /\ Runs
    /\ req.route = "patch"
    /\ CorrectKey(req)
    /\ HasAd(req.id)
    /\ ListedKeys(req) # {}
    /\ ScalarValues(req)

Present(l) == {i \in DOMAIN l : l[i].lead_id # NULL}

\* C7: of authorized POST /api/leads requests, the leads table keeps at most
\* one row per lead_id, a submission whose lead_id is stored already neither
\* adds nor overwrites a row, a first submission is stored with the attributes
\* it carried, and every one of the requests is answered {success: true}.
C7_LeadsIdempotent ==
    [][ (req.route = "lead" /\ CorrectKey(req)) =>
            /\ Answers => resp'.status = 200
            /\ Runs =>
                  /\ \A i, j \in Present(leads') :
                        leads'[i].lead_id = leads'[j].lead_id => i = j
                  /\ IF \E i \in Present(leads) : leads[i].lead_id = req.body.lead_id
                     THEN leads' = leads
                     ELSE /\ Len(leads') = Len(leads) + 1
                          /\ SubSeq(leads', 1, Len(leads)) = leads
                          /\ \A f \in LeadFields :
                                req.body[f] # UNDEFINED =>
                                    leads'[Len(leads')][f] = req.body[f] ]_vars

\* C8: no ad row that a create answered with success holds a service_type
\* that is the empty string or NULL, in any variant (checked with the secret
\* configured, so that every stored row comes from an authorized create).
C8_ServiceTypeNeverEmpty ==
    (pc = "idle" /\ envKey = Secret) => \A i \in DOMAIN ads : ads[i].service_type \notin {"", NULL}

\* the rows whose write was acknowledged: all of them, but for the row of the
\* insert that saveDb() is still writing
AckedAds ==
    IF pc = "saveDb" /\ req.route = "create" THEN Len(ads) - 1 ELSE Len(ads)
AckedLeads ==
    IF pc = "saveDb" /\ req.route = "lead" /\ Len(leads) > 0
    THEN Len(leads) - 1 ELSE Len(leads)

\* C9: in the sql.js variant the whole database is in the file when a write
\* is acknowledged, and no step, a crash included, loses a row whose write
\* was acknowledged (checked with the secret configured).
C9_FlushedBeforeAck ==
    [][ (variant = "sqljs" /\ envKey = Secret) =>
            /\ (Answers /\ resp'.status = 200 /\ req.route \in {"create", "patch", "lead"}) =>
                  file' = [ads |-> ads', leads |-> leads']
            /\ \A i \in 1 .. AckedAds : \E j \in DOMAIN ads' : ads'[j].id = ads[i].id
            /\ \A i \in 1 .. AckedLeads : \E j \in DOMAIN leads' : leads'[j].id = leads[i].id ]_vars

\* C10: an authorized PATCH with an allow-listed key, addressed to an id that
\* has no row, changes no row and is not answered with success.
C10_PatchMissingIsNotFound ==
    [][ (req.route = "patch" /\ CorrectKey(req) /\ ListedKeys(req) # {}
                             /\ ScalarValues(req) /\ ~HasAd(req.id)) =>
            /\ Runs => ads' = ads
            /\ Answers => resp'.status # 200 ]_vars
====
